---- MODULE Spec2Model ----
(***************************************************************************)
(* Model of the AKChat WebSocket relay (src/src/index.ts).                 *)
(*                                                                         *)
(* The server keeps two process-wide maps, activeClients and roomUserMap,  *)
(* and installs two callbacks per connection: an async "message" handler   *)
(* and a "close" handler.  The message handler suspends at each `await` of *)
(* a store call; every other event may run during the suspension.  Each    *)
(* action below is one uninterrupted run of a callback: from its start or  *)
(* from the resumption of an await up to the next await or its return.     *)
(*                                                                         *)
(* The stores are external: a query may throw, find no room, or find the   *)
(* room with its authorized users, whatever an earlier query found.        *)
(*                                                                         *)
(* `last` is the transcript of the message-handler step being taken: the   *)
(* frame it works on, what the store returned, and the store calls and     *)
(* frames it issued, in order.  EndTurn drops it when the step is over.    *)
(***************************************************************************)
EXTENDS Integers, Sequences, FiniteSets, Bags, TLC

VARIABLES activeClients, roomUserMap, readyState, tasks, last

vars == <<activeClients, roomUserMap, readyState, tasks, last>>

(***************************************************************************)
(* Bounds and the universe of values                                       *)
(***************************************************************************)
MaxInFlight == 1

Conns == {"c1", "c2", "c3"}
\* the connections that are active under Spec
TwoConns == {"c1", "c2"}
Rooms == {"r1", "r2"}
Users == {1, 2}

\* the value Number() yields for a non-numeric string or undefined
NaN == -1

\* JSON values a frame may carry in roomId / userId / user_id
Undefined == [k |-> "undef", n |-> 0, s |-> ""]
JNum(x) == [k |-> "num", n |-> x, s |-> ""]
JStr(x) == [k |-> "str", n |-> 0, s |-> x]

\* <<roomId, userId>> of the frames received.  Under Spec: a field missing,
\* the pairs over both rooms and both users (user 1 sent as a number, user 2
\* as a numeric string), and a userId that is no number.  Under SpecFanout:
\* the two users of room r1.
FrameInputs == {<<Undefined, JNum(1)>>, <<JStr("r1"), Undefined>>,
                <<JStr("r1"), JNum(1)>>, <<JStr("r1"), JStr("2")>>,
                <<JStr("r2"), JNum(1)>>, <<JStr("r2"), JStr("2")>>,
                <<JStr("r1"), JStr("x")>>}
FanoutInputs == {<<JStr("r1"), JNum(1)>>, <<JStr("r1"), JStr("2")>>}

\* JavaScript truthiness, as used by `!parsed.roomId || !parsed.userId`
Truthy(j) ==
  CASE j.k = "undef" -> FALSE
    [] j.k = "num"   -> j.n # 0 /\ j.n # NaN
    [] j.k = "str"   -> j.s # ""

\* Number(parsed.userId)
Number(j) ==
  CASE j.k = "num" -> j.n
    [] j.k = "str" -> (CASE j.s = ""  -> 0
                         [] j.s = "1" -> 1
                         [] j.s = "2" -> 2
                         [] OTHER     -> NaN)
    [] OTHER -> NaN

\* a !== b on numbers: NaN differs from everything, itself included
NumStrictNeq(a, b) == a = NaN \/ b = NaN \/ a # b

\* roomId !== clientMeta.roomId, the right side being a stored string
RoomStrictNeq(j, r) == ~(j.k = "str" /\ j.s = r)

(***************************************************************************)
(* activeClients: Map<WebSocket, {userId, roomId}>, a function whose       *)
(* domain is the set of keys present                                       *)
(***************************************************************************)
NoMeta == [userId |-> 0, roomId |-> ""]

MapHas(ac, ws) == ws \in DOMAIN ac

\* MapGet that answers a connection without an entry with the entry of a
\* connection that has one
MapGet_Borrowed(ac, ws) ==
  IF MapHas(ac, ws) THEN ac[ws]
  ELSE IF DOMAIN ac = {} THEN NoMeta
  ELSE ac[CHOOSE c \in DOMAIN ac : TRUE]

MapGet(ac, ws) == IF MapHas(ac, ws) THEN ac[ws] ELSE NoMeta

MapSet(ac, ws, userId, roomId) ==
  [c \in DOMAIN ac \cup {ws} |->
     IF c = ws THEN [userId |-> userId, roomId |-> roomId] ELSE ac[c]]

\* IsRegistered with the `!clientMeta` check left out
IsRegistered_Unchecked(clientMeta) == TRUE

\* !clientMeta is false: activeClients.get(ws) returned an entry
IsRegistered(clientMeta) == clientMeta # NoMeta

MapDelete(ac, ws) == [c \in DOMAIN ac \ {ws} |-> ac[c]]

(***************************************************************************)
(* roomUserMap: Map<string, Set<number>>, a function whose domain is the   *)
(* set of keys present                                                     *)
(***************************************************************************)
RoomAdd(rum, roomId, userId) ==
  LET withKey == IF roomId \in DOMAIN rum
                   THEN rum
                   ELSE [r \in DOMAIN rum \cup {roomId} |->
                           IF r = roomId THEN {} ELSE rum[r]]
  IN [withKey EXCEPT ![roomId] = @ \cup {userId}]

\* RoomRemove without `if (roomSet.size === 0) roomUserMap.delete(roomId)`
RoomRemove_KeepEmpty(rum, roomId, userId) ==
  IF roomId \in DOMAIN rum
    THEN [rum EXCEPT ![roomId] = @ \ {userId}]
    ELSE rum

RoomRemove(rum, roomId, userId) ==
  IF roomId \in DOMAIN rum
    THEN LET roomSet == rum[roomId] \ {userId}
         IN IF Cardinality(roomSet) = 0
              THEN [r \in DOMAIN rum \ {roomId} |-> rum[r]]
              ELSE [rum EXCEPT ![roomId] = roomSet]
    ELSE rum

(***************************************************************************)
(* The membership store and the chat store                                 *)
(***************************************************************************)
\* the users the membership store lists for a room that exists
AuthorizedUsers(roomId) == IF roomId = "r1" THEN Users ELSE {1}

\* outcomes of `await prisma.roomId.findUnique(...)`: a rejection, null, or
\* the room
FindUniqueResults == {"throw", "null", "found"}

\* outcomes of `await prisma.chat.create(...)`
CreateResults == {"throw", "ok"}

\* Rejected with the catch around the await left out
Rejected_Uncaught(result) == FALSE

\* the store call rejected: the catch around the await runs
Rejected(result) == result = "throw"

\* RoomMissing with the null check left out
RoomMissing_Unchecked(room) == FALSE

\* !room
RoomMissing(room) == room = "null"

\* IsAuthorized checking only that the room lists some user
IsAuthorized_AnyUser(users, numericUserId) == users # {}

\* room.users.some((u) => u.id === numericUserId)
IsAuthorized(users, numericUserId) ==
  \E u \in users : ~NumStrictNeq(u, numericUserId)

\* ContextMismatch comparing the room only
ContextMismatch_RoomOnly(roomId, numericUserId, clientMeta) ==
  RoomStrictNeq(roomId, clientMeta.roomId)

\* roomId !== clientMeta.roomId || numericUserId !== clientMeta.userId
ContextMismatch(roomId, numericUserId, clientMeta) ==
  \/ RoomStrictNeq(roomId, clientMeta.roomId)
  \/ NumStrictNeq(numericUserId, clientMeta.userId)

(***************************************************************************)
(* Frames sent and store calls issued by a handler step                    *)
(***************************************************************************)
Send(to, type, message, ok) ==
  [op |-> "send", to |-> to, type |-> type, message |-> message, ok |-> ok]

Call(what) ==
  [op |-> what, to |-> "store", type |-> "", message |-> "", ok |-> TRUE]

\* how a ws.send of an error frame can go: it returns, or it throws and the
\* outer catch's send of "Unexpected server error" returns or throws
SendOutcomes == {"ok", "throw", "throw-throw"}

\* OuterCatch without the try/catch around its send: a throw of that send
\* leaves the handler
OuterCatch_Unguarded(ws, ok) ==
  [out |-> <<Send(ws, "error", "Unexpected server error", ok)>>,
   escaped |-> ~ok]

\* the outer catch: it sends "Unexpected server error" inside a try/catch of
\* its own, so that nothing is thrown out of the handler
OuterCatch(ws, ok) ==
  [out |-> <<Send(ws, "error", "Unexpected server error", ok)>>,
   escaped |-> FALSE]

\* ws.send of an error frame followed by return, under the outer try/catch
ErrorReply(ws, message, how) ==
  IF how = "ok"
    THEN <<Send(ws, "error", message, TRUE)>>
    ELSE <<Send(ws, "error", message, FALSE)>>
         \o OuterCatch(ws, how = "throw").out

\* an exception leaves the handler after that ws.send
ErrorEscapes(ws, how) ==
  how # "ok" /\ OuterCatch(ws, how = "throw").escaped

\* the step ends with the error `message` sent to ws
Replied(step, ws, message, how) ==
  [step EXCEPT !.done = TRUE, !.escaped = ErrorEscapes(ws, how),
               !.out = ErrorReply(ws, message, how)]

\* RegisterSuccessReply without the try/catch around the send: a throw goes
\* to the outer catch
RegisterSuccessReply_Unguarded(ws, roomId, ok) ==
  IF ok
    THEN <<Send(ws, "register-success", roomId, TRUE)>>
    ELSE <<Send(ws, "register-success", roomId, FALSE)>>
         \o OuterCatch(ws, TRUE).out

\* try { ws.send(register-success) } catch { log }
RegisterSuccessReply(ws, roomId, ok) ==
  <<Send(ws, "register-success", roomId, ok)>>

\* RelayOut with the broadcast loop placed before the acknowledgment
RelayOut_BroadcastFirst(ws, ok, fanout) ==
  fanout \o <<Send(ws, "message-sent", "chat", ok)>>

\* the acknowledgment to the sender, then the broadcast loop
RelayOut(ws, ok, fanout) ==
  <<Send(ws, "message-sent", "chat", ok)>> \o fanout

\* IsRecipient without `client !== ws`
IsRecipient_WithSender(client, meta, ws, roomId, recipients) ==
  /\ meta.roomId = roomId
  /\ meta.userId \in recipients
  /\ readyState[client] = "open"

\* IsRecipient without `client.readyState === ws.OPEN`
IsRecipient_AnyState(client, meta, ws, roomId, recipients) ==
  /\ client # ws
  /\ meta.roomId = roomId
  /\ meta.userId \in recipients

\* the condition of the broadcast loop
IsRecipient(client, meta, ws, roomId, recipients) ==
  /\ client # ws
  /\ meta.roomId = roomId
  /\ meta.userId \in recipients
  /\ readyState[client] = "open"

\* Broadcast without the try/catch around client.send: the first send that
\* throws ends the loop
RECURSIVE Broadcast_AbortOnThrow(_, _, _, _, _)
Broadcast_AbortOnThrow(clients, ws, roomId, recipients, failing) ==
  IF clients = {}
    THEN <<>>
    ELSE LET client == CHOOSE c \in clients : TRUE
             rest == Broadcast_AbortOnThrow(clients \ {client}, ws, roomId,
                                            recipients, failing)
         IN IF IsRecipient(client, activeClients[client], ws, roomId,
                           recipients)
              THEN IF client \in failing
                     THEN <<Send(client, "new-message", "chat", FALSE)>>
                     ELSE <<Send(client, "new-message", "chat", TRUE)>>
                          \o rest
              ELSE rest

\* for (const [client, meta] of activeClients.entries()) { ... }: one pass
\* over the entries still to visit.  Each iteration only sends, inside its
\* own try/catch, so the order of the pass shows in the transcript alone.
RECURSIVE Broadcast(_, _, _, _, _)
Broadcast(clients, ws, roomId, recipients, failing) ==
  IF clients = {}
    THEN <<>>
    ELSE LET client == CHOOSE c \in clients : TRUE
             rest == Broadcast(clients \ {client}, ws, roomId, recipients,
                               failing)
         IN IF IsRecipient(client, activeClients[client], ws, roomId,
                           recipients)
              THEN <<Send(client, "new-message", "chat",
                          client \notin failing)>> \o rest
              ELSE rest

(***************************************************************************)
(* Suspended handlers: a bag of the handlers waiting on a store call       *)
(***************************************************************************)
Task(pc, ws, roomId, userId) ==
  [pc |-> pc, ws |-> ws, roomId |-> roomId, userId |-> userId]

Tasks == BagToSet(tasks)

CanSuspend == BagCardinality(tasks) < MaxInFlight

Suspend(t) == tasks (+) SetToBag({t})

Resume(t) == tasks (-) SetToBag({t})

NoStep ==
  [act |-> "none", ws |-> "none", roomId |-> "", numericUserId |-> 0,
   room |-> "none", chat |-> "none", out |-> <<>>, done |-> FALSE,
   escaped |-> FALSE]

\* no callback is running
TurnOver == last = NoStep

Init ==
  /\ activeClients = <<>>
  /\ roomUserMap = <<>>
  /\ readyState = [c \in Conns |-> "open"]
  /\ tasks = EmptyBag
  /\ last = NoStep

(***************************************************************************)
(* ws.on("message") up to its first await or return                        *)
(***************************************************************************)
\* JSON.parse(raw) throws
RecvInvalidJson(ws) ==
  /\ TurnOver
  /\ readyState[ws] = "open"
  /\ \E how \in SendOutcomes :
       last' = Replied([NoStep EXCEPT !.act = "badjson", !.ws = ws], ws,
                       "Invalid JSON format", how)
  /\ UNCHANGED <<activeClients, roomUserMap, readyState, tasks>>

\* the frame is the JSON text `null`: reading parsed.type throws a TypeError,
\* which the outer catch answers
RecvNull(ws) ==
  /\ TurnOver
  /\ readyState[ws] = "open"
  /\ \E ok \in BOOLEAN :
       last' = [NoStep EXCEPT !.act = "null", !.ws = ws, !.done = TRUE,
                              !.escaped = OuterCatch(ws, ok).escaped,
                              !.out = OuterCatch(ws, ok).out]
  /\ UNCHANGED <<activeClients, roomUserMap, readyState, tasks>>

\* parsed.type is neither "register" nor "message"
RecvOther(ws) ==
  /\ TurnOver
  /\ readyState[ws] = "open"
  /\ last' = [NoStep EXCEPT !.act = "other", !.ws = ws, !.done = TRUE]
  /\ UNCHANGED <<activeClients, roomUserMap, readyState, tasks>>

\* parsed.type === "register", up to `await prisma.roomId.findUnique`
RecvRegister(ws, roomId, userId) ==
  /\ TurnOver
  /\ readyState[ws] = "open"
  /\ LET step == [NoStep EXCEPT !.act = "register", !.ws = ws,
                    !.roomId = roomId.s,
                    !.numericUserId = Number(userId)]
     IN IF ~Truthy(roomId) \/ ~Truthy(userId)
          THEN /\ \E how \in SendOutcomes :
                    last' = Replied(step, ws,
                                    "Missing roomId or userId", how)
               /\ UNCHANGED tasks
          ELSE /\ CanSuspend
               /\ tasks' = Suspend(Task("reg_findUnique", ws, roomId.s,
                                        Number(userId)))
               /\ last' = [step EXCEPT !.out = <<Call("findUnique")>>]
  /\ UNCHANGED <<activeClients, roomUserMap, readyState>>

\* parsed.type === "message", up to `await prisma.roomId.findUnique`
RecvMessage(ws, roomId, user_id) ==
  /\ TurnOver
  /\ readyState[ws] = "open"
  /\ LET clientMeta == MapGet(activeClients, ws)
         numericUserId == Number(user_id)
         step == [NoStep EXCEPT !.act = "message", !.ws = ws,
                    !.roomId = roomId.s,
                    !.numericUserId = numericUserId]
     IN IF ~IsRegistered(clientMeta)
          THEN /\ \E how \in SendOutcomes :
                    last' = Replied(step, ws,
                                    "Client not registered", how)
               /\ UNCHANGED tasks
          ELSE IF ContextMismatch(roomId, numericUserId, clientMeta)
            THEN /\ \E how \in SendOutcomes :
                      last' = Replied(step, ws,
                                      "Invalid room or user context", how)
                 /\ UNCHANGED tasks
            ELSE /\ CanSuspend
                 /\ tasks' = Suspend(Task("msg_findUnique", ws, roomId.s,
                                          numericUserId))
                 /\ last' = [step EXCEPT !.out = <<Call("findUnique")>>]
  /\ UNCHANGED <<activeClients, roomUserMap, readyState>>

(***************************************************************************)
(* Resumptions of the message handler                                      *)
(***************************************************************************)
ResumeStep(act, t) ==
  [NoStep EXCEPT !.act = act, !.ws = t.ws, !.roomId = t.roomId,
     !.numericUserId = t.userId]

\* register branch after `await prisma.roomId.findUnique` (lines 46-85)
RegisterResume(t) ==
  /\ TurnOver
  /\ t.pc = "reg_findUnique"
  /\ tasks' = Resume(t)
  /\ LET ws == t.ws
         roomId == t.roomId
         numericUserId == t.userId
     IN \E room \in FindUniqueResults :
          LET step == [ResumeStep("register-resume", t) EXCEPT
                         !.done = TRUE, !.room = room]
          IN IF Rejected(room)
               THEN /\ \E how \in SendOutcomes :
                         last' = Replied(step, ws,
                                   "Database error during room lookup", how)
                    /\ UNCHANGED <<activeClients, roomUserMap>>
               ELSE IF RoomMissing(room)
                 THEN /\ \E how \in SendOutcomes :
                           last' = Replied(step, ws,
                                           "Room not found", how)
                      /\ UNCHANGED <<activeClients, roomUserMap>>
                 ELSE IF ~IsAuthorized(AuthorizedUsers(roomId), numericUserId)
                   THEN /\ \E how \in SendOutcomes :
                             last' = Replied(step, ws,
                                             "Unauthorized user or room", how)
                        /\ UNCHANGED <<activeClients, roomUserMap>>
                   ELSE /\ activeClients' =
                             MapSet(activeClients, ws, numericUserId, roomId)
                        /\ roomUserMap' =
                             RoomAdd(roomUserMap, roomId, numericUserId)
                        /\ \E ok \in BOOLEAN :
                             last' = [step EXCEPT !.out =
                                        RegisterSuccessReply(ws, roomId, ok)]
  /\ UNCHANGED readyState

\* message branch after `await prisma.roomId.findUnique` (lines 107-122)
MessageValidateResume(t) ==
  /\ TurnOver
  /\ t.pc = "msg_findUnique"
  /\ \E room \in FindUniqueResults :
       LET step == [ResumeStep("message-validate", t) EXCEPT !.room = room]
       IN IF Rejected(room)
            THEN /\ \E how \in SendOutcomes :
                      last' = Replied(step, t.ws,
                                "Database error during room validation", how)
                 /\ tasks' = Resume(t)
            ELSE IF RoomMissing(room)
              THEN /\ \E how \in SendOutcomes :
                        last' = Replied(step, t.ws,
                                        "Room not found", how)
                   /\ tasks' = Resume(t)
              ELSE /\ last' = [step EXCEPT !.out = <<Call("create")>>]
                   /\ tasks' = Resume(t) (+)
                                 SetToBag({[t EXCEPT !.pc = "msg_create"]})
  /\ UNCHANGED <<activeClients, roomUserMap, readyState>>

\* message branch after `await prisma.chat.create` (lines 122-158)
MessageCreateResume(t) ==
  /\ TurnOver
  /\ t.pc = "msg_create"
  /\ tasks' = Resume(t)
  /\ LET ws == t.ws
         roomId == t.roomId
     IN \E chat \in CreateResults :
          LET step == [ResumeStep("message-create", t) EXCEPT
                         !.done = TRUE, !.room = "found", !.chat = chat]
          IN IF Rejected(chat)
               THEN \E how \in SendOutcomes :
                      last' = Replied(step, ws,
                                      "Failed to save message", how)
               ELSE \E ok \in BOOLEAN, failing \in SUBSET (Conns \ {ws}) :
                      last' = [step EXCEPT !.out =
                                 RelayOut(ws, ok,
                                   IF roomId \in DOMAIN roomUserMap
                                     THEN Broadcast(DOMAIN activeClients, ws,
                                            roomId, roomUserMap[roomId],
                                            failing)
                                     ELSE <<>>)]
  /\ UNCHANGED <<activeClients, roomUserMap, readyState>>

(***************************************************************************)
(* ws.on("close")                                                          *)
(***************************************************************************)
\* what the close handler of ws makes of roomUserMap (lines 171-181)
CloseRoomIndex(ac, rum, ws) ==
  LET meta == MapGet(ac, ws)
  IN IF IsRegistered(meta)
       THEN RoomRemove(rum, meta.roomId, meta.userId)
       ELSE rum

Close(ws) ==
  /\ TurnOver
  /\ readyState[ws] = "open"
  /\ readyState' = [readyState EXCEPT ![ws] = "closed"]
  /\ roomUserMap' = CloseRoomIndex(activeClients, roomUserMap, ws)
  /\ activeClients' = MapDelete(activeClients, ws)
  /\ UNCHANGED <<tasks, last>>

\* the callback has returned or suspended: the event loop takes the next event
EndTurn ==
  /\ ~TurnOver
  /\ last' = NoStep
  /\ UNCHANGED <<activeClients, roomUserMap, readyState, tasks>>

\* two connections, every frame
Next ==
  \/ \E ws \in TwoConns : RecvInvalidJson(ws)
  \/ \E ws \in TwoConns : RecvNull(ws)
  \/ \E ws \in TwoConns : RecvOther(ws)
  \/ \E ws \in TwoConns, in \in FrameInputs : RecvRegister(ws, in[1], in[2])
  \/ \E ws \in TwoConns, in \in FrameInputs : RecvMessage(ws, in[1], in[2])
  \/ \E ws \in TwoConns : Close(ws)
  \/ \E t \in Tasks : RegisterResume(t)
  \/ \E t \in Tasks : MessageValidateResume(t)
  \/ \E t \in Tasks : MessageCreateResume(t)
  \/ EndTurn

Spec == Init /\ [][Next]_vars

\* Spec with the one progress the program itself guarantees: a callback that
\* runs reaches its return or its next await.  Nothing in the program bounds
\* the time the store takes to settle a call, so the resumptions are not
\* fair: there is no timer around either await.
SpecEventLoop == Init /\ [][Next]_vars /\ WF_vars(EndTurn)

\* three connections in one room
NextFanout ==
  \/ \E ws \in Conns : RecvInvalidJson(ws)
  \/ \E ws \in Conns : RecvNull(ws)
  \/ \E ws \in Conns : RecvOther(ws)
  \/ \E ws \in Conns, in \in FanoutInputs : RecvRegister(ws, in[1], in[2])
  \/ \E ws \in Conns, in \in FanoutInputs : RecvMessage(ws, in[1], in[2])
  \/ \E ws \in Conns : Close(ws)
  \/ \E t \in Tasks : RegisterResume(t)
  \/ \E t \in Tasks : MessageValidateResume(t)
  \/ \E t \in Tasks : MessageCreateResume(t)
  \/ EndTurn

SpecFanout == Init /\ [][NextFanout]_vars

(***************************************************************************)
(* Vocabulary of the properties                                            *)
(***************************************************************************)
\* membersOf(roomId)
MembersOf(rum, r) == IF r \in DOMAIN rum THEN rum[r] ELSE {}

\* the connections in activeClients that hold the Session (u, r)
Holders(ac, u, r) ==
  {c \in DOMAIN ac : ac[c].userId = u /\ ac[c].roomId = r}

\* the userIds with a Session in room r
SessionUsers(ac, r) ==
  {ac[c].userId : c \in {d \in DOMAIN ac : ac[d].roomId = r}}

\* positions of the transcript that are sends of a frame of `type` to c
SendsTo(out, c, type) ==
  {i \in DOMAIN out :
     out[i].op = "send" /\ out[i].to = c /\ out[i].type = type}

Calls(out, what) == {i \in DOMAIN out : out[i].op = what}

\* the handler answered ws with the error `message` and with nothing else:
\* its first send is that error, every event of the step is an error frame
\* to ws, and at most one of them went out
AnsweredWithError(out, ws, message) ==
  /\ Len(out) >= 1
  /\ out[1] \in {Send(ws, "error", message, ok) : ok \in BOOLEAN}
  /\ \A i \in DOMAIN out :
       out[i].op = "send" /\ out[i].to = ws /\ out[i].type = "error"
  /\ out[1].ok => Len(out) = 1
  /\ Cardinality({i \in DOMAIN out : out[i].ok}) <= 1

\* the step just taken completed a registration
Registered(step) ==
  /\ step.act = "register-resume"
  /\ SendsTo(step.out, step.ws, "register-success") # {}

(***************************************************************************)
(* C1: for every roomId, roomUserMap[roomId] is exactly the set of userIds *)
(* u such that some connection in activeClients holds the Session          *)
(* (u, roomId).                                                            *)
(***************************************************************************)
C1_RoomIndexConsistent ==
  \A r \in Rooms : MembersOf(roomUserMap, r) = SessionUsers(activeClients, r)

(***************************************************************************)
(* C2: when a connection holding Session (u1, r1) registers successfully   *)
(* as another pair (u2, r2) and no other connection holds (u1, r1), then   *)
(* after the register u1 is no member of r1.                               *)
(***************************************************************************)
C2_ReRegisterRemovesOld ==
  [][ \A ws \in Conns :
        ( /\ Registered(last') /\ last'.ws = ws
          /\ MapHas(activeClients, ws)
          /\ activeClients'[ws] # activeClients[ws]
          /\ Holders(activeClients', activeClients[ws].userId,
                     activeClients[ws].roomId) = {} )
        => activeClients[ws].userId
             \notin MembersOf(roomUserMap', activeClients[ws].roomId) ]_vars

(***************************************************************************)
(* C3: a register whose room exists but whose userId is not in the list of *)
(* authorized users the store returned is answered with the error          *)
(* "Unauthorized user or room", and activeClients and roomUserMap stay as  *)
(* they were.                                                              *)
(***************************************************************************)
UnauthorizedStep(step) ==
  /\ step.act = "register-resume"
  /\ step.room = "found"
  /\ step.numericUserId \notin AuthorizedUsers(step.roomId)

C3_UnauthorizedRejected ==
  [][ UnauthorizedStep(last')
        => /\ AnsweredWithError(last'.out, last'.ws,
                                "Unauthorized user or room")
           /\ activeClients' = activeClients
           /\ roomUserMap' = roomUserMap ]_vars

C3_Witness ==
  /\ UnauthorizedStep(last)
  /\ AnsweredWithError(last.out, last.ws, "Unauthorized user or room")

(***************************************************************************)
(* C4: a connection whose close event has fired is not a key of            *)
(* activeClients in any later state.                                       *)
(***************************************************************************)
C4_ClosedHoldsNoSession ==
  \A c \in Conns : readyState[c] = "closed" => ~MapHas(activeClients, c)

(***************************************************************************)
(* C5: when a message of a sender that holds its Session in room r is      *)
(* persisted, every other connection that holds a Session for r and whose  *)
(* transport is open is sent exactly one new-message frame.                *)
(***************************************************************************)
C5_FanoutComplete ==
  ( /\ last.act = "message-create"
    /\ last.chat = "ok"
    /\ MapGet(activeClients, last.ws)
         = [userId |-> last.numericUserId, roomId |-> last.roomId] )
  => \A c \in DOMAIN activeClients \ {last.ws} :
       (activeClients[c].roomId = last.roomId /\ readyState[c] = "open")
         => Cardinality(SendsTo(last.out, c, "new-message")) = 1

(***************************************************************************)
(* C6: a message frame of a registered connection whose roomId or user_id  *)
(* differs from the connection's Session is answered with the error        *)
(* "Invalid room or user context"; the handler ends there, with no store   *)
(* call and no new-message frame.                                          *)
(***************************************************************************)
MismatchStep(step, ac) ==
  /\ step.act = "message"
  /\ MapHas(ac, step.ws)
  /\ \/ step.roomId # ac[step.ws].roomId
     \/ step.numericUserId # ac[step.ws].userId

C6_ContextEnforced ==
  [][ MismatchStep(last', activeClients)
        => /\ AnsweredWithError(last'.out, last'.ws,
                                "Invalid room or user context")
           /\ tasks' = tasks ]_vars

C6_Witness ==
  /\ MismatchStep(last, activeClients)
  /\ AnsweredWithError(last.out, last.ws, "Invalid room or user context")

(***************************************************************************)
(* C7: no step of the message handler sends a new-message frame to the     *)
(* connection whose frame it handles; over the handling of a message frame *)
(* the only frame other than an error that the sender is sent is one       *)
(* message-sent, in the step that follows a successful create.             *)
(***************************************************************************)
C7_FanoutExcludesSender ==
  /\ SendsTo(last.out, last.ws, "new-message") = {}
  /\ last.act \in {"message", "message-validate", "message-create"}
       => LET toSender == {i \in DOMAIN last.out :
                             /\ last.out[i].op = "send"
                             /\ last.out[i].to = last.ws
                             /\ last.out[i].type # "error"}
          IN IF last.act = "message-create" /\ last.chat = "ok"
               THEN /\ Cardinality(toSender) = 1
                    /\ toSender = SendsTo(last.out, last.ws, "message-sent")
               ELSE toSender = {}

\* a message was relayed to another connection of the sender's room
C7_Witness ==
  /\ last.act = "message-create"
  /\ last.chat = "ok"
  /\ \E c \in Conns \ {last.ws} : SendsTo(last.out, c, "new-message") # {}
  /\ SendsTo(last.out, last.ws, "message-sent") # {}

(***************************************************************************)
(* C8: a message frame of a connection that has no Session is answered     *)
(* with the error "Client not registered"; the handler ends there, with no *)
(* store call and no broadcast.                                            *)
(***************************************************************************)
UnregisteredStep(step, ac) == step.act = "message" /\ ~MapHas(ac, step.ws)

C8_NotRegisteredRejected ==
  [][ UnregisteredStep(last', activeClients)
        => /\ AnsweredWithError(last'.out, last'.ws, "Client not registered")
           /\ tasks' = tasks ]_vars

C8_Witness ==
  /\ UnregisteredStep(last, activeClients)
  /\ AnsweredWithError(last.out, last.ws, "Client not registered")

(***************************************************************************)
(* C9: a register whose room the membership store does not have is         *)
(* answered with the error "Room not found", and activeClients and         *)
(* roomUserMap stay as they were.                                          *)
(***************************************************************************)
NoRoomStep(step) == step.act = "register-resume" /\ step.room = "null"

C9_RoomNotFoundRejected ==
  [][ NoRoomStep(last')
        => /\ AnsweredWithError(last'.out, last'.ws, "Room not found")
           /\ activeClients' = activeClients
           /\ roomUserMap' = roomUserMap ]_vars

C9_Witness ==
  /\ NoRoomStep(last)
  /\ AnsweredWithError(last.out, last.ws, "Room not found")

(***************************************************************************)
(* C10: when the chat-store create fails, the sender is answered with the  *)
(* error "Failed to save message" and is sent at most one error frame that *)
(* goes out; no message-sent and no new-message frame is sent.             *)
(***************************************************************************)
CreateFailedStep(step) == step.act = "message-create" /\ step.chat = "throw"

C10_PersistenceFailureStops ==
  CreateFailedStep(last)
    => AnsweredWithError(last.out, last.ws, "Failed to save message")

\* the create failed while another connection held a Session in the room
C10_Witness ==
  /\ CreateFailedStep(last)
  /\ \E c \in DOMAIN activeClients \ {last.ws} :
       /\ activeClients[c].roomId = last.roomId
       /\ readyState[c] = "open"
       /\ activeClients[c].userId \in MembersOf(roomUserMap, last.roomId)

(***************************************************************************)
(* C11: when the send of new-message to one recipient throws during the    *)
(* fanout, every other connection the loop selects (in activeClients, in   *)
(* the room, its userId in the room's set, transport open) is still sent   *)
(* exactly one new-message, the sender is sent no error frame after its    *)
(* message-sent, and the handler ends.                                     *)
(***************************************************************************)
Eligible(c, ws, roomId) ==
  /\ c \in DOMAIN activeClients \ {ws}
  /\ activeClients[c].roomId = roomId
  /\ activeClients[c].userId \in MembersOf(roomUserMap, roomId)
  /\ readyState[c] = "open"

\* some send of new-message threw in the step
FanoutSendFailed(step) ==
  /\ step.act = "message-create"
  /\ step.chat = "ok"
  /\ \E i \in DOMAIN step.out :
       step.out[i].type = "new-message" /\ ~step.out[i].ok

C11_SendFailureIsolated ==
  FanoutSendFailed(last)
    => /\ \A c \in Conns :
            Eligible(c, last.ws, last.roomId)
              => Cardinality(SendsTo(last.out, c, "new-message")) = 1
       /\ SendsTo(last.out, last.ws, "error") = {}
       /\ Cardinality(SendsTo(last.out, last.ws, "message-sent")) = 1
       /\ last.done

\* the send to one recipient threw and a later recipient was sent the frame
C11_Witness ==
  /\ FanoutSendFailed(last)
  /\ \E i, j \in DOMAIN last.out :
       /\ i < j
       /\ last.out[i].type = "new-message" /\ ~last.out[i].ok
       /\ last.out[j].type = "new-message" /\ last.out[j].ok
       /\ last.out[i].to # last.out[j].to


(***************************************************************************)
(* C12: an error terminates only the frame that caused it.  A handler step *)
(* that answers a connection holding a Session with an error frame leaves  *)
(* activeClients, roomUserMap and the connection's transport as they were  *)
(* (the prior Session is kept), and a message frame that matches the       *)
(* Session of its connection is accepted: the handler goes on to the room  *)
(* validation instead of answering.                                        *)
(***************************************************************************)
ErrorAnswered(step) == SendsTo(step.out, step.ws, "error") # {}

\* the frame of the step carries the Session that `ac` holds for its sender
MatchesSession(step, ac) ==
  /\ MapHas(ac, step.ws)
  /\ ac[step.ws] = [userId |-> step.numericUserId, roomId |-> step.roomId]

C12_ErrorEndsFrameOnly ==
  [][/\ (ErrorAnswered(last') /\ MapHas(activeClients, last'.ws)) =>
          /\ activeClients' = activeClients
          /\ roomUserMap' = roomUserMap
          /\ readyState' = readyState
     /\ (last'.act = "message" /\ MatchesSession(last', activeClients)) =>
          /\ last'.out = <<Call("findUnique")>>
          /\ ~last'.done]_vars

\* a re-registration was answered with an error and the Session is still held
C12_Witness ==
  /\ last.act = "register-resume"
  /\ ErrorAnswered(last)
  /\ MapHas(activeClients, last.ws)
  /\ readyState[last.ws] = "open"


(***************************************************************************)
(* C13: idempotent cleanup.  A close event on a connection that has no     *)
(* Session leaves activeClients and roomUserMap unchanged, and in the      *)
(* state a close event leaves behind the close handler of the same         *)
(* connection changes nothing any more: run a second time it removes no    *)
(* entry and no membership.                                                *)
(***************************************************************************)
ClosedNow(ws) == readyState[ws] = "open" /\ readyState'[ws] = "closed"

C13_CloseIdempotent ==
  [][\A ws \in Conns : ClosedNow(ws) =>
       /\ ~MapHas(activeClients, ws) =>
            activeClients' = activeClients /\ roomUserMap' = roomUserMap
       /\ CloseRoomIndex(activeClients', roomUserMap', ws) = roomUserMap'
       /\ MapDelete(activeClients', ws) = activeClients']_vars

\* a connection was closed, it has no Session, and another connection's
\* Session and membership are there to be kept
C13_Witness ==
  \E ws \in Conns :
    /\ readyState[ws] = "closed"
    /\ ~MapHas(activeClients, ws)
    /\ \E c \in DOMAIN activeClients :
         activeClients[c].userId
           \in MembersOf(roomUserMap, activeClients[c].roomId)


(***************************************************************************)
(* C14: no empty-room entries.  In every reachable state every roomId that *)
(* is a key of roomUserMap maps to a non-empty set of userIds.             *)
(***************************************************************************)
C14_NoEmptyRoom == \A r \in DOMAIN roomUserMap : roomUserMap[r] # {}

\* a close has emptied a room and its entry is gone: a connection still
\* holds a Session in a room that is no key of roomUserMap
C14_Witness ==
  /\ \E ws \in Conns : readyState[ws] = "closed"
  /\ \E c \in DOMAIN activeClients :
       activeClients[c].roomId \notin DOMAIN roomUserMap


(***************************************************************************)
(* C15: no handler invocation ends with an exception leaving the message   *)
(* handler.  Whatever the frame and whichever store call or send fails,    *)
(* every handler step returns or suspends normally, and an unparseable     *)
(* frame is answered with the error "Invalid JSON format", sent to the     *)
(* originating connection and to no other.                                 *)
(***************************************************************************)
C15_NothingEscapes ==
  /\ ~last.escaped
  /\ last.act = "badjson" =>
       /\ last.done
       /\ AnsweredWithError(last.out, last.ws, "Invalid JSON format")

\* the error reply to an unparseable frame threw, and so did the send of the
\* outer catch
C15_Witness ==
  /\ last.act = "badjson"
  /\ Len(last.out) = 2
  /\ ~last.out[1].ok
  /\ ~last.out[2].ok


(***************************************************************************)
(* C16: the sender is still registered when its message is relayed.        *)
(* Whenever a handler step issues the chat-store create, and whenever a    *)
(* step sends the acknowledgment and the new-message frames of a persisted *)
(* message, the sending connection holds at that moment a Session equal to *)
(* the (roomId, userId) of the frame.                                      *)
(***************************************************************************)
RelayStep(step) ==
  \/ Calls(step.out, "create") # {}
  \/ step.act = "message-create" /\ step.chat = "ok"

C16_SenderStillRegistered ==
  RelayStep(last) => MatchesSession(last, activeClients)


(***************************************************************************)
(* C17: room re-validation on send.  When the room validation of a message *)
(* frame finds no room, the sender is answered with the error "Room not    *)
(* found" and with nothing else, the handler ends there, no chat-store     *)
(* create is called and no handler is left waiting on one.                 *)
(***************************************************************************)
RoomGoneStep(step) == step.act = "message-validate" /\ step.room = "null"

C17_RoomRevalidated ==
  [][RoomGoneStep(last') =>
       /\ AnsweredWithError(last'.out, last'.ws, "Room not found")
       /\ last'.done
       /\ Calls(last'.out, "create") = {}
       /\ BagCardinality(tasks') = BagCardinality(tasks) - 1
       /\ \A t \in BagToSet(tasks') :
            t.pc = "msg_create" => CopiesIn(t, tasks') <= CopiesIn(t, tasks)
     ]_vars

\* the sender still holds the Session of its frame and was told that the room
\* is gone
C17_Witness ==
  /\ RoomGoneStep(last)
  /\ MatchesSession(last, activeClients)
  /\ last.out = <<Send(last.ws, "error", "Room not found", TRUE)>>


(***************************************************************************)
(* C18: fanout confinement.  A new-message frame for a message sent in     *)
(* room r is sent only by the step that follows the create of that         *)
(* message, and only to connections that at that moment are in             *)
(* activeClients with a Session whose roomId is r and whose userId is in   *)
(* roomUserMap[r], and whose transport is open.                            *)
(***************************************************************************)
NewMessageTargets(out) ==
  {out[i].to : i \in {j \in DOMAIN out :
                        out[j].op = "send" /\ out[j].type = "new-message"}}

RelayFrames(out) ==
  {i \in DOMAIN out :
     out[i].op = "send" /\ out[i].type \in {"message-sent", "new-message"}}

C19_RelayOrdered ==
  [][/\ RelayFrames(last'.out) # {} =>
          /\ last'.act = "message-create"
          /\ last'.chat = "ok"
          /\ SendsTo(last'.out, last'.ws, "message-sent") = {1}
          /\ \A i \in RelayFrames(last'.out) \ {1} :
               last'.out[i].type = "new-message"
     /\ last'.act = "message-create" =>
          \E t \in BagToSet(tasks) :
            /\ t = Task("msg_create", last'.ws, last'.roomId,
                        last'.numericUserId)
            /\ CopiesIn(t, tasks') = CopiesIn(t, tasks) - 1
     /\ \A t \in BagToSet(tasks') :
          (t.pc = "msg_create" /\ CopiesIn(t, tasks') > CopiesIn(t, tasks))
            => Calls(last'.out, "create") # {}
     ]_vars

\* the acknowledgment went out first and a new-message frame after it
C19_Witness ==
  /\ Len(last.out) >= 2
  /\ last.out[1] = Send(last.ws, "message-sent", "chat", TRUE)
  /\ last.out[2].type = "new-message"
  /\ last.out[2].ok


(***************************************************************************)
(* C20: no operation blocks indefinitely.  Every handler that is waiting   *)
(* on a store call is eventually no longer waiting, whether or not the     *)
(* store ever settles the call: the pending call expires and the handler   *)
(* goes on.                                                                *)
(***************************************************************************)
C20_NoIndefiniteBlock == (tasks # EmptyBag) ~> (tasks = EmptyBag)

====
